---- MODULE Spec2Model ----
(***************************************************************************)
(* Model of the to-do list widget: TodoItem (todo-item.cpp) and            *)
(* TodoListService with the global DefaultTodoList (todo-list.cpp).        *)
(* Objects live in heaps indexed by allocation order; a pointer is an      *)
(* index into its heap.                                                    *)
(***************************************************************************)
EXTENDS Integers, Sequences, FiniteSets, TLC

VARIABLES
    items,            \* heap of TodoItem objects: [name, author, times_done]
    DefaultTodoList,  \* the global vector of TodoItem pointers
    services,         \* number of TodoListService instances constructed
    buttons,          \* heap of QPushButton objects: [text]
    layouts,          \* heap of QVBoxLayout objects: sequence of QPushButton pointers
    ret,              \* the last call: [op, self, args, str, num]
    calls,            \* per TodoItem, how many times IncreaseTimesDone was called
    made,             \* log of TodoItem::GetLayout calls: [self, button]
    nInc,             \* IncreaseTimesDone calls made since Init
    aborted           \* the process was ended by an overflow trap

vars == <<items, DefaultTodoList, services, buttons, layouts, ret, calls, made,
          nInc, aborted>>

\* ------------------------------------------------------------------ bounds
MaxServices == 2
MaxLoose == 2
MaxCalls == 3
MaxHeadroom == 2

\* --------------------------------------------------------- program constants
IntBits == 32
INT_MAX == (2^(IntBits - 2) - 1) + 2^(IntBits - 2)
INT_MIN == (-INT_MAX) - 1

\* A count of calls can pass INT_MAX, so it is kept as two limbs: hi * Limb + lo.
Limb == 2^(IntBits \div 2)
CountOf(n) == [hi |-> n \div Limb, lo |-> n % Limb]
CountInc(c) ==
    IF c.lo + 1 = Limb THEN [hi |-> c.hi + 1, lo |-> 0]
    ELSE [hi |-> c.hi, lo |-> c.lo + 1]

\* Arguments a caller hands to TodoItem(new_name, new_author).
ArgNames == {"", "Read book"}
ArgAuthors == {"", "Andrew"}

\* ------------------------------------------------------------------ TodoItem
TodoItem_Default == [name |-> "Chill", author |-> "Andrew", times_done |-> 0]

TodoItem_SwappedArgs(new_name, new_author) ==
    [name |-> new_author, author |-> new_name, times_done |-> 0]

TodoItem_New(new_name, new_author) ==
    [name |-> new_name, author |-> new_author, times_done |-> 0]

GetName(self) == items[self].name

GetAuthor(self) == items[self].author

GetTimesDone(self) == items[self].times_done

\* times_done += 1 on an int: defined below INT_MAX; at INT_MAX the signed
\* overflow is undefined, and a build either wraps to INT_MIN or traps.
AddOne(t) ==
    IF t < INT_MAX
    THEN {[value |-> t + 1, trap |-> FALSE]}
    ELSE {[value |-> INT_MIN, trap |-> FALSE], [value |-> t, trap |-> TRUE]}

IncreaseTimesDone_All(its, self) ==
    { [items |-> IF o.trap THEN its
                 ELSE [i \in DOMAIN its |->
                          IF i = self THEN [its[i] EXCEPT !.times_done = o.value]
                          ELSE [its[i] EXCEPT !.times_done = @ + 1]],
       trap |-> o.trap] : o \in AddOne(its[self].times_done) }

\* void TodoItem::IncreaseTimesDone(): the outcomes of one call on its[self].
IncreaseTimesDone(its, self) ==
    { [items |-> IF o.trap THEN its ELSE [its EXCEPT ![self].times_done = o.value],
       trap |-> o.trap] : o \in AddOne(its[self].times_done) }

TodoItem_GetLayout_Cached(heap, log, self) ==
    IF \E c \in DOMAIN log : log[c].self = self
    THEN LET c == CHOOSE d \in DOMAIN log : log[d].self = self
         IN  [buttons |-> heap,
              made |-> Append(log, [self |-> self, button |-> log[c].button]),
              button |-> log[c].button]
    ELSE [buttons |-> Append(heap, [text |-> items[self].name]),
          made |-> Append(log, [self |-> self, button |-> Len(heap) + 1]),
          button |-> Len(heap) + 1]

\* QPushButton* TodoItem::GetLayout(): new QPushButton, setText(name); the
\* button heap after the call and the pointer returned.
TodoItem_GetLayout(heap, log, self) ==
    [buttons |-> Append(heap, [text |-> items[self].name]),
     made |-> Append(log, [self |-> self, button |-> Len(heap) + 1]),
     button |-> Len(heap) + 1]

\* ----------------------------------------------------------- TodoListService
Instances == 1..services

SeedItems ==
    << TodoItem_New("Clean cat shit", "Andrew"),
       TodoItem_New("Wash dishes", "Victoria"),
       TodoItem_New("English language homework", "Tatyana") >>

SeedNames == { SeedItems[i].name : i \in DOMAIN SeedItems }
SeedAuthors == { SeedItems[i].author : i \in DOMAIN SeedItems }

TodoListService_New_SeedOnce(its, list) ==
    IF list = << >>
    THEN [items |-> its \o SeedItems,
          list |-> list \o << Len(its) + 1, Len(its) + 2, Len(its) + 3 >>]
    ELSE [items |-> its, list |-> list]

TodoListService_New_Reordered(its, list) ==
    [items |-> its \o SeedItems,
     list |-> list \o << Len(its) + 2, Len(its) + 1, Len(its) + 3 >>]

TodoListService_New_Reset(its, list) ==
    [items |-> its \o SeedItems,
     list |-> << Len(its) + 1, Len(its) + 2, Len(its) + 3 >>]

\* TodoListService::TodoListService(): three new TodoItem, three push_back.
TodoListService_New(its, list) ==
    [items |-> its \o SeedItems,
     list |-> list \o << Len(its) + 1, Len(its) + 2, Len(its) + 3 >>]

GetTodos_PerInstance(this) ==
    SubSeq(DefaultTodoList, 3 * (this - 1) + 1, 3 * this)

\* VectorTodoItem& TodoListService::GetTodos() const
GetTodos(this) == DefaultTodoList

\* The range-for of TodoListService::GetLayout over the copy `todos`.
RECURSIVE AddWidgets(_, _, _, _)
AddWidgets(todos, heap, log, children) ==
    IF todos = << >>
    THEN [buttons |-> heap, made |-> log, children |-> children]
    ELSE LET w == TodoItem_GetLayout(heap, log, Head(todos))
         IN  AddWidgets(Tail(todos), w.buttons, w.made, Append(children, w.button))

TodoListService_GetLayout_SkipLast(this) ==
    LET todos == GetTodos(this)
        w == AddWidgets(SubSeq(todos, 1, Len(todos) - 1), buttons, made, << >>)
    IN  [buttons |-> w.buttons, made |-> w.made,
         layouts |-> Append(layouts, w.children),
         layout |-> Len(layouts) + 1]

\* QVBoxLayout* TodoListService::GetLayout() const
TodoListService_GetLayout(this) ==
    LET todos == GetTodos(this)
        w == AddWidgets(todos, buttons, made, << >>)
    IN  [buttons |-> w.buttons, made |-> w.made,
         layouts |-> Append(layouts, w.children),
         layout |-> Len(layouts) + 1]

\* ------------------------------------------------------------------ helpers
RECURSIVE SumLen(_)
SumLen(ls) == IF ls = << >> THEN 0 ELSE Len(Head(ls)) + SumLen(Tail(ls))

\* TodoItem objects that are not in DefaultTodoList
Loose == Len(items) - Len(DefaultTodoList)

\* TodoItem::GetLayout calls made by a caller other than TodoListService::GetLayout
Direct == Len(made) - SumLen(layouts)

\* Calls of either GetLayout made by the application
Renders == Len(layouts) + Direct

Call(op, self, args, str, num) ==
    [op |-> op, self |-> self, args |-> args, str |-> str, num |-> num]

\* --------------------------------------------------------------------- Init
Init ==
    /\ items = << >>
    /\ DefaultTodoList = << >>
    /\ services = 0
    /\ buttons = << >>
    /\ layouts = << >>
    /\ ret = Call("start", 0, << >>, "", 0)
    /\ calls = << >>
    /\ made = << >>
    /\ nInc = 0
    /\ aborted = FALSE

\* One TodoListService constructed and IncreaseTimesDone called n times on a
\* record of the list, for n within MaxHeadroom of INT_MAX.
InitLongRun ==
    \E self \in 1..3 : \E n \in { INT_MAX - d : d \in 0..MaxHeadroom } :
        /\ items = [i \in 1..3 |->
                      IF i = self THEN [SeedItems[i] EXCEPT !.times_done = n]
                      ELSE SeedItems[i]]
        /\ DefaultTodoList = << 1, 2, 3 >>
        /\ services = 1
        /\ buttons = << >>
        /\ layouts = << >>
        /\ ret = Call("IncreaseTimesDone", self, << >>, "", 0)
        /\ calls = [i \in 1..3 |-> IF i = self THEN CountOf(n) ELSE CountOf(0)]
        /\ made = << >>
        /\ nInc = 0
        /\ aborted = FALSE

\* ------------------------------------------------------------------ actions
NewTodoListService ==
    /\ ~aborted
    /\ services < MaxServices
    /\ LET r == TodoListService_New(items, DefaultTodoList)
       IN  /\ items' = r.items
           /\ DefaultTodoList' = r.list
           /\ calls' = calls \o [i \in 1..(Len(r.items) - Len(items)) |-> CountOf(0)]
    /\ services' = services + 1
    /\ ret' = Call("TodoListService", services + 1, << >>, "", 0)
    /\ UNCHANGED <<buttons, layouts, made, nInc, aborted>>

NewTodoItemDefault ==
    /\ ~aborted
    /\ Loose < MaxLoose
    /\ items' = Append(items, TodoItem_Default)
    /\ calls' = Append(calls, CountOf(0))
    /\ ret' = Call("TodoItem()", Len(items) + 1, << >>, "", 0)
    /\ UNCHANGED <<DefaultTodoList, services, buttons, layouts, made, nInc, aborted>>

NewTodoItem(new_name, new_author) ==
    /\ ~aborted
    /\ Loose < MaxLoose
    /\ items' = Append(items, TodoItem_New(new_name, new_author))
    /\ calls' = Append(calls, CountOf(0))
    /\ ret' = Call("TodoItem(n,a)", Len(items) + 1, << new_name, new_author >>, "", 0)
    /\ UNCHANGED <<DefaultTodoList, services, buttons, layouts, made, nInc, aborted>>

CallGetName(self) ==
    /\ ~aborted
    /\ GetName(self) \in ArgNames \cup SeedNames \cup {TodoItem_Default.name}
    /\ UNCHANGED vars

CallGetAuthor(self) ==
    /\ ~aborted
    /\ GetAuthor(self) \in ArgAuthors \cup SeedAuthors \cup {TodoItem_Default.author}
    /\ UNCHANGED vars

CallGetTimesDone(self) ==
    /\ ~aborted
    /\ GetTimesDone(self) \in Int
    /\ UNCHANGED vars

CallIncreaseTimesDone(self) ==
    /\ ~aborted
    /\ Renders + nInc < MaxCalls
    /\ \E o \in IncreaseTimesDone(items, self) :
          /\ items' = o.items
          /\ aborted' = o.trap
    /\ calls' = [calls EXCEPT ![self] = CountInc(@)]
    /\ nInc' = nInc + 1
    /\ ret' = Call("IncreaseTimesDone", self, << >>, "", 0)
    /\ UNCHANGED <<DefaultTodoList, services, buttons, layouts, made>>

CallItemGetLayout(self) ==
    /\ ~aborted
    /\ Renders + nInc < MaxCalls
    /\ LET r == TodoItem_GetLayout(buttons, made, self)
       IN  /\ buttons' = r.buttons
           /\ made' = r.made
           /\ ret' = Call("TodoItem::GetLayout", self, << >>, "", r.button)
    /\ UNCHANGED <<items, DefaultTodoList, services, layouts, calls, nInc, aborted>>

CallServiceGetLayout(this) ==
    /\ ~aborted
    /\ Renders + nInc < MaxCalls
    /\ LET r == TodoListService_GetLayout(this)
       IN  /\ buttons' = r.buttons
           /\ made' = r.made
           /\ layouts' = r.layouts
           /\ ret' = Call("TodoListService::GetLayout", this, << >>, "", r.layout)
    /\ UNCHANGED <<items, DefaultTodoList, services, calls, nInc, aborted>>

\* The program: TodoItem's constructors are private (todo-item.cpp:12-14), so
\* every record is made by TodoListService's constructor.
Next ==
    \/ NewTodoListService
    \/ \E self \in DOMAIN items : CallGetName(self)
    \/ \E self \in DOMAIN items : CallGetAuthor(self)
    \/ \E self \in DOMAIN items : CallGetTimesDone(self)
    \/ \E self \in DOMAIN items : CallIncreaseTimesDone(self)
    \/ \E self \in DOMAIN items : CallItemGetLayout(self)
    \/ \E this \in Instances : CallServiceGetLayout(this)

\* The class TodoItem by itself, driven by a caller that can construct it.
NextItem ==
    \/ NewTodoItemDefault
    \/ \E n \in ArgNames : \E a \in ArgAuthors : NewTodoItem(n, a)
    \/ \E self \in DOMAIN items : CallGetName(self)
    \/ \E self \in DOMAIN items : CallGetAuthor(self)
    \/ \E self \in DOMAIN items : CallGetTimesDone(self)
    \/ \E self \in DOMAIN items : CallIncreaseTimesDone(self)
    \/ \E self \in DOMAIN items : CallItemGetLayout(self)

Spec == Init /\ [][Next]_vars

SpecItem == Init /\ [][NextItem]_vars

SpecLongRun == InitLongRun /\ [][Next]_vars

\* ------------------------------------------------------------------- claims
\* The records of the shared sequence, in order.
Records == [i \in DOMAIN DefaultTodoList |-> items[DefaultTodoList[i]]]

\* The step is a call of op that changed the state (the accessors change nothing).
StepIs(op) == ret'.op = op /\ vars' # vars

\* The labels of the controls in the container GetLayout() returns to instance `this`.
Rendered(this) ==
    LET r == TodoListService_GetLayout(this)
        c == r.layouts[r.layout]
    IN  [i \in DOMAIN c |-> r.buttons[c[i]].text]

\* C1: after N TodoListService constructions the shared sequence holds exactly
\* 3*N records: every construction seeds again.
C1_ThreePerService == Len(DefaultTodoList) = 3 * services

C1_Witness == services = 2 /\ Len(DefaultTodoList) = 6

\* C2: constructing a TodoListService on the sequence S yields S followed by
\* three new records: ("Clean cat shit","Andrew"), ("Wash dishes","Victoria"),
\* ("English language homework","Tatyana"), in this order, each with times_done 0.
C2_SeedAppended ==
    [][StepIs("TodoListService") =>
         /\ Len(DefaultTodoList') = Len(DefaultTodoList) + 3
         /\ \A i \in DOMAIN DefaultTodoList :
               /\ DefaultTodoList'[i] = DefaultTodoList[i]
               /\ Records'[i] = Records[i]
         /\ \A j \in 1..3 :
               /\ DefaultTodoList'[Len(DefaultTodoList) + j] \notin DOMAIN items
               /\ Records'[Len(DefaultTodoList) + j] =
                     [name |-> <<"Clean cat shit", "Wash dishes",
                                 "English language homework">>[j],
                      author |-> <<"Andrew", "Victoria", "Tatyana">>[j],
                      times_done |-> 0]
         /\ \A j, k \in 1..3 :
               j # k => DefaultTodoList'[Len(DefaultTodoList) + j]
                           # DefaultTodoList'[Len(DefaultTodoList) + k]]_vars

C2_Witness ==
    /\ ret.op = "TodoListService"
    /\ services = 2
    /\ \E r \in 1..3 : items[DefaultTodoList[r]].times_done = 1
    /\ Records[4].name = "Clean cat shit"
    /\ Records[6].author = "Tatyana"

\* C3: with M records in the shared sequence, GetLayout() returns a newly
\* allocated container with exactly M children, the i-th labelled with the name
\* of the i-th record.
C3_RenderAll ==
    [][StepIs("TodoListService::GetLayout") =>
         /\ ret'.num \notin DOMAIN layouts
         /\ ret'.num \in DOMAIN layouts'
         /\ Len(layouts'[ret'.num]) = Len(DefaultTodoList)
         /\ \A i \in DOMAIN DefaultTodoList :
               buttons'[layouts'[ret'.num][i]].text = items[DefaultTodoList[i]].name
         /\ \A l \in DOMAIN layouts : layouts'[l] = layouts[l]]_vars

C3_Witness ==
    /\ ret.op = "TodoListService::GetLayout"
    /\ Len(DefaultTodoList) = 6
    /\ Len(layouts[ret.num]) = 6
    /\ buttons[layouts[ret.num][5]].text = "Wash dishes"

\* C4: k calls of IncreaseTimesDone() on a fresh record yield GetTimesDone() = k,
\* for every k >= 0, also past the largest int.
C4_CountsEveryCall ==
    \A r \in DOMAIN items :
        ~aborted => /\ GetTimesDone(r) >= 0
                    /\ calls[r] = CountOf(GetTimesDone(r))

\* C5: right after construction a record built with (n, a) reports name n,
\* author a and times_done 0; the defaulted form reports "Chill", "Andrew", 0.
C5_Constructed ==
    /\ ret.op = "TodoItem(n,a)" =>
          /\ GetName(ret.self) = ret.args[1]
          /\ GetAuthor(ret.self) = ret.args[2]
          /\ GetTimesDone(ret.self) = 0
    /\ ret.op = "TodoItem()" =>
          /\ GetName(ret.self) = "Chill"
          /\ GetAuthor(ret.self) = "Andrew"
          /\ GetTimesDone(ret.self) = 0

C5_Witness ==
    /\ ret.op = "TodoItem(n,a)"
    /\ ret.args = << "", "Andrew" >>
    /\ ret.self = 2
    /\ items[1] = TodoItem_Default

\* C6: two calls of TodoItem::GetLayout() on the same record return two distinct
\* controls, both labelled with the record's name.
C6_DistinctControls ==
    /\ \A i, j \in DOMAIN made :
          (i # j /\ made[i].self = made[j].self) => made[i].button # made[j].button
    /\ \A i \in DOMAIN made :
          /\ made[i].button \in DOMAIN buttons
          /\ buttons[made[i].button].text = GetName(made[i].self)

C6_Witness ==
    /\ Direct = 2
    /\ layouts = << >>
    /\ made[1].self = made[2].self

\* C7: the sequence is one per process: after N constructions GetLayout() on any
\* instance renders the records seeded by all N (3*N controls), the same for
\* every instance.
C7_SharedByInstances ==
    \A s \in Instances :
        LET labels == Rendered(s)
        IN  /\ DOMAIN labels = 1..(3 * services)
            /\ \A i \in DOMAIN labels : labels[i] = Records[i].name
            /\ labels = Rendered(1)

C7_Witness ==
    /\ services = 2
    /\ ret.op = "TodoListService::GetLayout"
    /\ ret.self = 1
    /\ Len(layouts[ret.num]) = 6

\* C8: times_done starts at 0 and never decreases: a step leaves it unchanged or,
\* for IncreaseTimesDone() only, raises it by exactly 1; it is never negative.
C8_Monotonic ==
    [][\A r \in DOMAIN items :
          /\ items'[r].times_done >= 0
          /\ \/ items'[r].times_done = items[r].times_done
             \/ /\ StepIs("IncreaseTimesDone")
                /\ ret'.self = r
                /\ items[r].times_done < INT_MAX
                /\ items'[r].times_done = items[r].times_done + 1
          /\ (StepIs("IncreaseTimesDone") /\ ret'.self = r) =>
                items'[r].times_done # items[r].times_done]_vars

\* C9: the shared sequence is append-only: each step keeps the sequence it found
\* as a prefix of the sequence it leaves, with the same records in the same places.
C9_AppendOnly ==
    [][/\ Len(DefaultTodoList') >= Len(DefaultTodoList)
       /\ \A i \in DOMAIN DefaultTodoList :
             /\ DefaultTodoList'[i] = DefaultTodoList[i]
             /\ Records'[i].name = Records[i].name
             /\ Records'[i].author = Records[i].author]_vars

C9_Witness ==
    /\ services = 2
    /\ Renders > 0
    /\ nInc > 0
    /\ DefaultTodoList = << 1, 2, 3, 4, 5, 6 >>

\* C10: the accessors and both GetLayout() leave every record and the shared
\* sequence unchanged; IncreaseTimesDone() on r changes only r's times_done.
C10_Frame ==
    [][/\ (StepIs("TodoItem::GetLayout") \/ StepIs("TodoListService::GetLayout")) =>
             UNCHANGED << items, DefaultTodoList >>
       /\ (\/ \E self \in DOMAIN items : CallGetName(self)
           \/ \E self \in DOMAIN items : CallGetAuthor(self)
           \/ \E self \in DOMAIN items : CallGetTimesDone(self)) =>
             UNCHANGED << items, DefaultTodoList >>
       /\ StepIs("IncreaseTimesDone") =>
             /\ DefaultTodoList' = DefaultTodoList
             /\ DOMAIN items' = DOMAIN items
             /\ \A i \in DOMAIN items :
                   /\ items'[i].name = items[i].name
                   /\ items'[i].author = items[i].author
                   /\ i # ret'.self => items'[i] = items[i]]_vars

C10_Witness ==
    /\ ret.op = "IncreaseTimesDone"
    /\ services = 2
    /\ Renders > 0
    /\ items[ret.self].times_done = 1
    /\ \E i \in DOMAIN items : i # ret.self /\ items[i].times_done = 0

====
